---- MODULE Spec2Model ----
(***************************************************************************)
(* A model of the separation subsystem of Sepai-gimp:                      *)
(*   - SeparationCoordinator.execute_separation and the HybridAIEngine     *)
(*     pipeline (segment, advise, regionally separate, merge);             *)
(*   - AIMethodAnalyzer.analyze_and_recommend (the method advisor).        *)
(* Strings of the program are modelled as sequences of tokens where they   *)
(* are built by concatenation (error messages).  Pixel data is abstracted: *)
(* a mask is the set of pixel blocks a region owns.                        *)
(***************************************************************************)
EXTENDS Integers, Sequences, FiniteSets, TLC

VARIABLES
    hasModel,         \* self.model is set (api key given and genai importable)
    pc,               \* position of the execute_separation call
    method,           \* the requested method
    palette,          \* the palette of the request
    stageLog,         \* the hybrid stages started so far, in order
    raisedIn,         \* the stage (or Dispatch/Engine) whose exception reached the coordinator
    engineLog,        \* every engine.separate invocation of the call, in order
    prelim,           \* preliminary regions returned by the segmenter
    aiAnalysis,       \* the analysis dict handed to _build_region_analysis_result
    regionAnalysis,   \* RegionAnalysisResult.regions
    regionalResults,  \* the list returned by RegionalSeparator.separate_regions
    result,           \* what execute_separation gives its caller
    maPc,             \* position of the analyze_and_recommend call
    maCtx,            \* the context built by _build_analysis_context
    maSvc,            \* what the advisory service did for this call
    maOut,            \* what analyze_and_recommend gives its caller
    now,              \* the system clock read by datetime.now()
    fnIn,             \* the arguments of the component exercised on its own
    fnOut             \* what that component returned, call after call

vars == << hasModel, pc, method, palette, stageLog, raisedIn, engineLog, prelim,
           aiAnalysis, regionAnalysis, regionalResults, result,
           maPc, maCtx, maSvc, maOut, now, fnIn, fnOut >>

sepVars == << pc, method, palette, stageLog, raisedIn, engineLog, prelim,
              aiAnalysis, regionAnalysis, regionalResults, result >>

maVars == << maPc, maCtx, maSvc, maOut >>

fnVars == << now, fnIn, fnOut >>

----------------------------------------------------------------------------
(* Bounds of the model *)

MaxRegions == 2
MaxPalette == 2
MaxColorCount == 13
MaxAlternatives == 2

Min(a, b) == IF a < b THEN a ELSE b

----------------------------------------------------------------------------
(* Data *)

SeparationMethod ==
    {"spot_color", "simulated_process", "index_color", "cmyk", "rgb", "hybrid_ai"}

\* The keys of SeparationCoordinator.engines.
EngineKeys ==
    {"spot_color", "simulated_process", "index_color", "cmyk", "rgb", "hybrid_ai"}

\* What a caller can pass as method: a member of the enum, or any other value
\* (SeparationMethod is a str-Enum, so the plain string "cmyk" is found in the
\* engines dict although it has no .value).
Requests ==
    [value : SeparationMethod, isEnum : {TRUE}]
        \cup [value : {"cmyk", "halftone"}, isEnum : {FALSE}]

InkNames == << "ink1", "ink2", "ink3", "ink4" >>

PaletteOf(n) == [i \in 1..n |-> [name |-> InkNames[i]]]

\* str(e) of the exceptions a component can raise; it may be empty.
Exceptions == {"", "error"}

NoResult ==
    [returned |-> FALSE, raised |-> FALSE, success |-> FALSE, error_message |-> << >>,
     channels |-> << >>, method_used |-> "none", total_coverage |-> 0]

\* A string built by concatenation is non-empty when one of its parts is.
StrNonEmpty(s) == \E i \in 1..Len(s) : s[i] # ""

----------------------------------------------------------------------------
(* SeparationCoordinator.execute_separation *)

\* An except clause that lets the exception go on to the caller.
HandleException_Reraise(m, e) ==
    [returned |-> FALSE, raised |-> TRUE, success |-> FALSE,
     error_message |-> << e >>, channels |-> << >>, method_used |-> m.value,
     total_coverage |-> 0]

\* Lines 102-114: the except clause.
HandleException(m, e) ==
    [returned |-> TRUE, raised |-> FALSE, success |-> FALSE,
     error_message |-> << "Separation failed: ", e >>,
     channels |-> << >>, method_used |-> m.value, total_coverage |-> 0]

\* sum(ch.coverage_percentage for ch in channels), line 85.
RECURSIVE SumCoverage(_)
SumCoverage(chans) ==
    IF chans = << >> THEN 0
    ELSE chans[Len(chans)].coverage_percentage + SumCoverage(SubSeq(chans, 1, Len(chans) - 1))

\* A total that is the plain sum.
TotalCoverage_Uncapped(chans) == SumCoverage(chans)

\* Line 97: min(total_coverage, 100.0).
TotalCoverage(chans) == Min(SumCoverage(chans), 100)

\* Lines 84-100: the result of a run whose engine returned.
SuccessResult(m, chans) ==
    [returned |-> TRUE, raised |-> FALSE, success |-> TRUE, error_message |-> << >>,
     channels |-> chans, method_used |-> m.value, total_coverage |-> TotalCoverage(chans)]

\* A dispatch that gives an unknown method a default engine, as
\* RegionalSeparator._get_engine_for_method does.
DispatchTarget_DefaultEngine(m) ==
    IF m.value = "hybrid_ai" THEN "Segment" ELSE "Engine"

\* Lines 68-74: validation, engine lookup, and the print that reads method.value.
DispatchTarget(m) ==
    IF m.value \notin EngineKeys THEN "Invalid"
    ELSE IF ~m.isEnum THEN "AttributeError"
    ELSE IF m.value = "hybrid_ai" THEN "Segment"
    ELSE "Engine"

FixedChannels(names) == [i \in 1..Len(names) |-> [name |-> names[i], order |-> i]]

\* The channel list an engine returns: one per palette colour for the
\* palette-driven engines, four fixed for CMYK, three fixed for RGB.
EngineChannels(engine, pal) ==
    CASE engine = "cmyk" -> FixedChannels(<< "Cyan", "Magenta", "Yellow", "Black" >>)
      [] engine = "rgb"  -> FixedChannels(<< "Red", "Green", "Blue" >>)
      [] OTHER           -> [i \in 1..Len(pal) |-> [name |-> pal[i].name, order |-> i]]

\* The coverage an engine measures on a channel, (pixel_count / size) * 100,
\* in percent: no pixel, or 60% of the pixels.
Coverages == {0, 60}

\* The channels with the coverage the engine computed for each.
WithCoverage(chans, cov) ==
    [i \in 1..Len(chans) |->
        [name |-> chans[i].name, order |-> chans[i].order, coverage_percentage |-> cov[i]]]

Dispatch ==
    /\ pc = "Idle"
    /\ \E m \in Requests, n \in 0..MaxPalette :
        /\ method' = m
        /\ palette' = PaletteOf(n)
        /\ LET t == DispatchTarget(m) IN
            IF t \in {"Invalid", "AttributeError"}
            THEN /\ pc' = "Completed"
                 /\ raisedIn' = "Dispatch"
                 /\ result' = HandleException(m, IF t = "Invalid"
                                                  THEN "Unsupported separation method"
                                                  ELSE "no attribute value")
            ELSE /\ pc' = t
                 /\ UNCHANGED << raisedIn, result >>
    /\ UNCHANGED << hasModel, stageLog, engineLog, prelim, aiAnalysis,
                    regionAnalysis, regionalResults >>
    /\ UNCHANGED << maVars, fnVars >>

\* Lines 76-100 for a direct engine.
RunEngine ==
    /\ pc = "Engine"
    /\ engineLog' = Append(engineLog, [engine |-> method.value, region |-> 0])
    /\ \/ \E e \in Exceptions :
            /\ result' = HandleException(method, e)
            /\ raisedIn' = "Engine"
       \/ /\ LET chans == EngineChannels(method.value, palette)
             IN  \E cov \in [1..Len(chans) -> Coverages] :
                    result' = SuccessResult(method, WithCoverage(chans, cov))
          /\ UNCHANGED raisedIn
    /\ pc' = "Completed"
    /\ UNCHANGED << hasModel, method, palette, stageLog, prelim, aiAnalysis,
                    regionAnalysis, regionalResults >>
    /\ UNCHANGED << maVars, fnVars >>

----------------------------------------------------------------------------
(* RegionSegmenter: the characteristics of a preliminary region *)

\* The metrics _characterize_regions measures on a region; scores are in
\* tenths (0..10 for 0.0..1.0).
RegionMetrics ==
    { [edge_sharpness |-> 9, has_gradients |-> FALSE, texture_score |-> 1, unique_colors |-> 4],
      [edge_sharpness |-> 3, has_gradients |-> TRUE,  texture_score |-> 7, unique_colors |-> 40],
      [edge_sharpness |-> 5, has_gradients |-> FALSE, texture_score |-> 4, unique_colors |-> 20],
      [edge_sharpness |-> 8, has_gradients |-> FALSE, texture_score |-> 2, unique_colors |-> 12] }

GuessRegionType(mt) ==
    IF mt.edge_sharpness > 7 /\ ~mt.has_gradients /\ mt.unique_colors < 10 THEN "vector"
    ELSE IF mt.texture_score > 6 /\ mt.has_gradients THEN "photo"
    ELSE IF mt.edge_sharpness > 8 /\ mt.unique_colors < 3 THEN "text"
    ELSE "mixed"

\* One dict per filtered region, in order: region_id is 'region_<idx+1>' and
\* the mask is the region's own (masks of different regions differ).
CharacterizeRegions(ms) ==
    [i \in 1..Len(ms) |->
        [region_id      |-> i,
         mask           |-> {i},
         edge_sharpness |-> ms[i].edge_sharpness,
         has_gradients  |-> ms[i].has_gradients,
         texture_score  |-> ms[i].texture_score,
         type           |-> GuessRegionType(ms[i])]]

\* The lists segment_image can return for some image.
MetricLists == UNION { [1..n -> RegionMetrics] : n \in 0..MaxRegions }

----------------------------------------------------------------------------
(* RegionAnalyzer *)

TopLevelKeys ==
    {"overall_strategy", "complexity_rating", "regions", "region_interactions",
     "expected_results", "confidence_assessment"}

\* _get_rule_based_analysis, lines 221-258: the method of one region.
RuleBasedMethod(r) ==
    IF r.type = "vector" \/ (r.edge_sharpness > 7 /\ ~r.has_gradients) THEN "spot_color"
    ELSE IF r.type = "photo" \/ (r.has_gradients /\ r.texture_score > 5) THEN "simulated_process"
    ELSE "index_color"

\* _get_rule_based_analysis, lines 210-283.
RuleBasedAnalysis(pre) ==
    [source  |-> "rules",
     keys    |-> TopLevelKeys,
     regions |-> [i \in 1..Len(pre) |->
                    [region_id          |-> pre[i].region_id,
                     recommended_method |-> RuleBasedMethod(pre[i]),
                     has_gradients      |-> pre[i].has_gradients,
                     edge_sharpness     |-> pre[i].edge_sharpness]]]

\* The region lists the advisory service can answer with, relative to the
\* regions it was asked about: the same, one fewer, one more, or reversed.
ResponseShapes == {"same", "fewer", "more", "reordered"}

\* The methods the service names; "screen_tone" is no SeparationMethod.
ServiceMethods == {"spot_color", "cmyk", "screen_tone"}

ServiceRegion(id, m, grad, edge) ==
    [region_id |-> id, recommended_method |-> m, has_gradients |-> grad, edge_sharpness |-> edge]

ServiceRegions(shape, m, pre) ==
    LET n == Len(pre)
        echo(i) == ServiceRegion(pre[i].region_id, m, pre[i].has_gradients, pre[i].edge_sharpness)
    IN  CASE shape = "same"      -> [i \in 1..n |-> echo(i)]
          [] shape = "fewer"     -> [i \in 1..(IF n = 0 THEN 0 ELSE n - 1) |-> echo(i)]
          [] shape = "more"      -> [i \in 1..(n + 1) |->
                                        IF i <= n THEN echo(i) ELSE ServiceRegion(n + 1, m, FALSE, 5)]
          [] shape = "reordered" -> [i \in 1..n |-> echo(n + 1 - i)]

\* What model.generate_content can do: raise, or answer with a text that holds
\* no JSON object, malformed JSON, or a JSON object with some top-level keys.
ServiceAnswers(pre) ==
    [kind : {"raises", "no_json", "bad_json"}, keys : {{}}, regions : {<< >>}]
    \cup { [kind |-> "json", keys |-> ks, regions |-> ServiceRegions(sh, m, pre)] :
              ks \in {TopLevelKeys} \cup {TopLevelKeys \ {k} : k \in TopLevelKeys},
              sh \in ResponseShapes, m \in ServiceMethods }

\* GeminiRegionAnalyzer.parse_gemini_response raises ValueError.
ParseRaises(ans) ==
    \/ ans.kind \in {"no_json", "bad_json"}
    \/ ans.kind = "json" /\ ~({"overall_strategy", "regions", "expected_results"} \subseteq ans.keys)

\* _get_ai_region_analysis, lines 172-191: the dict it returns for an answer.
AiRegionAnalysis(ans, pre) ==
    IF ans.kind = "raises" \/ ParseRaises(ans)
    THEN RuleBasedAnalysis(pre)
    ELSE [source |-> "service", keys |-> ans.keys, regions |-> ans.regions]

\* _build_region_analysis_result raises: SeparationMethod(method_str) on an
\* unknown method (ValueError), or a top-level key it reads is missing (KeyError).
BuildRaises(ai, pre) ==
    \/ \E k \in 1..Min(Len(ai.regions), Len(pre)) :
            ai.regions[k].recommended_method \notin SeparationMethod
    \/ ~({"overall_strategy", "complexity_rating", "expected_results",
          "confidence_assessment"} \subseteq ai.keys)

\* _build_region_analysis_result, lines 299-337: zip(ai regions, preliminary regions).
BuildRegions(ai, pre) ==
    [k \in 1..Min(Len(ai.regions), Len(pre)) |->
        [id                 |-> ai.regions[k].region_id,
         mask               |-> pre[k].mask,
         has_gradients      |-> ai.regions[k].has_gradients,
         edge_sharpness     |-> ai.regions[k].edge_sharpness,
         texture_score      |-> pre[k].texture_score,
         recommended_method |-> ai.regions[k].recommended_method]]

----------------------------------------------------------------------------
(* RegionalSeparator *)

\* _get_engine_for_method, lines 125-135.
EngineForMethod(m) ==
    IF m = "spot_color" THEN "spot_color"
    ELSE IF m = "simulated_process" THEN "simulated_process"
    ELSE "index_color"

RegionalResult(r, pal, failed, e) ==
    [region_id |-> r.id,
     region    |-> r,
     method    |-> r.recommended_method,
     channels  |-> IF failed THEN << >>
                   ELSE EngineChannels(EngineForMethod(r.recommended_method), pal),
     success   |-> ~failed,
     error     |-> IF failed THEN << e >> ELSE << >>]

\* A loop without the try block's recovery: it stops at the first region whose
\* engine raises.
SeparateRegions_StopAtFailure(regs, pal, fails, e) ==
    LET ok == {k \in 1..Len(regs) : \A j \in 1..k : j \notin fails}
    IN  [k \in 1..Min(Len(regs), Cardinality(ok) + 1) |->
            RegionalResult(regs[k], pal, k \in fails, e)]

\* separate_regions, lines 51-99: fails is the set of positions whose
\* engine.separate raises, e the text of the exception.
SeparateRegions(regs, pal, fails, e) ==
    [k \in 1..Len(regs) |-> RegionalResult(regs[k], pal, k \in fails, e)]

\* parameters.get(key, default) on a dict, a function from its keys.
Get(parameters, key, default) ==
    IF key \in DOMAIN parameters THEN parameters[key] ELSE default

\* _get_parameters_for_region, lines 137-162; edge_sharpness is in tenths.
ParametersForRegion(r) ==
    IF r.recommended_method = "spot_color"
    THEN [color_tolerance |-> IF r.edge_sharpness > 8 THEN 15 ELSE 20,
          edge_smoothing  |-> r.edge_sharpness < 7]
    ELSE IF r.recommended_method = "simulated_process"
    THEN [dither_method   |-> IF r.has_gradients THEN "error_diffusion" ELSE "none",
          halftone_method |-> "stochastic"]
    ELSE IF r.recommended_method = "index_color"
    THEN [dither_method |-> IF r.has_gradients THEN "floyd_steinberg" ELSE "none"]
    ELSE [key \in {} |-> "none"]

\* Whether the engine dithers when called with these parameters:
\* IndexColorEngine.separate line 36 and _quantize_to_palette line 125,
\* SimulatedProcessEngine.separate lines 36 and 52; SpotColorEngine never does.
EngineDithers(engine, parameters) ==
    CASE engine = "index_color" ->
            Get(parameters, "dither_method", "floyd_steinberg") = "floyd_steinberg"
      [] engine = "simulated_process" ->
            Get(parameters, "halftone_method", "stochastic") = "error_diffusion"
      [] OTHER -> FALSE

\* The engine.separate calls separate_regions makes, in order.
RegionalEngineCalls(regs) ==
    [k \in 1..Len(regs) |->
        [engine     |-> EngineForMethod(regs[k].recommended_method),
         region     |-> regs[k].id,
         parameters |-> ParametersForRegion(regs[k])]]

----------------------------------------------------------------------------
(* ChannelMerger *)

\* A merger that has channels only when some region was separated.
MergeRegionalChannels_OfSeparatedOnly(results, pal) ==
    IF \E k \in 1..Len(results) : results[k].success
    THEN [i \in 1..Len(pal) |-> [name |-> pal[i].name, order |-> i]]
    ELSE << >>

\* merge_regional_channels, lines 57-113: one channel per palette colour,
\* whatever the regional results are.
MergeRegionalChannels(results, pal) ==
    [i \in 1..Len(pal) |-> [name |-> pal[i].name, order |-> i]]

----------------------------------------------------------------------------
(* HybridAIEngine.separate, run inside execute_separation's try block *)

\* A wrong order of the calls: the regions are separated before they are advised.
StageAfter_SkipAdvise(stage) ==
    CASE stage = "Segment"            -> "RegionallySeparate"
      [] stage = "Advise"             -> "RegionallySeparate"
      [] stage = "RegionallySeparate" -> "Merge"
      [] OTHER                        -> "Completed"

\* Lines 82-124: where control goes when a stage returns.  Segmentation and
\* advice are the steps of analyze_regions (region_analyzer.py, lines 83-113).
StageAfter(stage) ==
    CASE stage = "Segment"            -> "Advise"
      [] stage = "Advise"             -> "RegionallySeparate"
      [] stage = "RegionallySeparate" -> "Merge"
      [] OTHER                        -> "Completed"

\* An exception of a hybrid stage propagates through HybridAIEngine.separate
\* to the except clause of execute_separation.
StageRaises(stage, e) ==
    /\ pc' = "Completed"
    /\ raisedIn' = stage
    /\ result' = HandleException(method, e)

\* RegionAnalyzer.analyze_regions, step 1 (lines 83-92).
Segment ==
    /\ pc = "Segment"
    /\ stageLog' = Append(stageLog, "Segment")
    /\ \/ /\ \E e \in Exceptions : StageRaises("Segment", e)
          /\ UNCHANGED prelim
       \/ /\ \E ms \in MetricLists : prelim' = CharacterizeRegions(ms)
          /\ pc' = StageAfter("Segment")
          /\ UNCHANGED << raisedIn, result >>
    /\ UNCHANGED << hasModel, method, palette, engineLog, aiAnalysis,
                    regionAnalysis, regionalResults >>
    /\ UNCHANGED << maVars, fnVars >>

\* RegionAnalyzer.analyze_regions, step 3 (lines 120-128), on the dict of step 2.
BuildResult(ai) ==
    /\ aiAnalysis' = ai
    /\ IF BuildRaises(ai, prelim)
       THEN /\ StageRaises("Advise", "build error")
            /\ UNCHANGED regionAnalysis
       ELSE /\ regionAnalysis' = BuildRegions(ai, prelim)
            /\ pc' = StageAfter("Advise")
            /\ UNCHANGED << raisedIn, result >>

\* analyze_regions, step 2 without a model (lines 106-113), then step 3.
AdviseRuleBased ==
    /\ pc = "Advise"
    /\ ~hasModel
    /\ stageLog' = Append(stageLog, "Advise")
    /\ BuildResult(RuleBasedAnalysis(prelim))
    /\ UNCHANGED << hasModel, method, palette, engineLog, prelim, regionalResults >>
    /\ UNCHANGED << maVars, fnVars >>

\* analyze_regions, step 2 with a model: _get_ai_region_analysis builds the
\* prompt and blocks in model.generate_content (line 176).
AdviseRequest ==
    /\ pc = "Advise"
    /\ hasModel
    /\ stageLog' = Append(stageLog, "Advise")
    /\ pc' = "AwaitService"
    /\ UNCHANGED << hasModel, method, palette, raisedIn, engineLog, prelim, aiAnalysis,
                    regionAnalysis, regionalResults, result >>
    /\ UNCHANGED << maVars, fnVars >>

\* generate_content returns or raises; _get_ai_region_analysis parses or falls
\* back (lines 176-191), then step 3 builds the result.
ServiceResponds ==
    /\ pc = "AwaitService"
    /\ \E ans \in ServiceAnswers(prelim) : BuildResult(AiRegionAnalysis(ans, prelim))
    /\ UNCHANGED << hasModel, method, palette, stageLog, engineLog, prelim, regionalResults >>
    /\ UNCHANGED << maVars, fnVars >>

\* HybridAIEngine.separate, step 2: RegionalSeparator.separate_regions.
RegionallySeparate ==
    /\ pc = "RegionallySeparate"
    /\ stageLog' = Append(stageLog, "RegionallySeparate")
    /\ \/ /\ \E e \in Exceptions : StageRaises("RegionallySeparate", e)
          /\ UNCHANGED << engineLog, regionalResults >>
       \/ /\ \E fails \in SUBSET (1..Len(regionAnalysis)), e \in Exceptions :
                /\ fails = {} => e = ""
                /\ regionalResults' = SeparateRegions(regionAnalysis, palette, fails, e)
          /\ engineLog' = engineLog \o RegionalEngineCalls(regionAnalysis)
          /\ pc' = StageAfter("RegionallySeparate")
          /\ UNCHANGED << raisedIn, result >>
    /\ UNCHANGED << hasModel, method, palette, prelim, aiAnalysis, regionAnalysis >>
    /\ UNCHANGED << maVars, fnVars >>

\* HybridAIEngine.separate, step 3: ChannelMerger.merge_regional_channels, and
\* the coordinator's result (lines 84-100).
Merge ==
    /\ pc = "Merge"
    /\ stageLog' = Append(stageLog, "Merge")
    /\ \/ \E e \in Exceptions : StageRaises("Merge", e)
       \/ /\ LET chans == MergeRegionalChannels(regionalResults, palette)
             IN  \E cov \in [1..Len(chans) -> Coverages] :
                    result' = SuccessResult(method, WithCoverage(chans, cov))
          /\ pc' = StageAfter("Merge")
          /\ UNCHANGED raisedIn
    /\ UNCHANGED << hasModel, method, palette, engineLog, prelim, aiAnalysis,
                    regionAnalysis, regionalResults >>
    /\ UNCHANGED << maVars, fnVars >>

----------------------------------------------------------------------------
(* AIMethodAnalyzer (the method advisor) *)

\* A JSON value: a string, a number, the literal NaN (which json.loads
\* accepts and turns into float('nan')), or an absent key.
JStr(x) == [t |-> "str", s |-> x, n |-> 0]
JNum(x) == [t |-> "num", s |-> "", n |-> x]
JNaN == [t |-> "nan", s |-> "", n |-> 0]
JAbsent == [t |-> "absent", s |-> "", n |-> 0]

\* A recommendation entry as the parser hands it on: a dict with some of the
\* keys method, score, expected_channels, or a value that is no dict.
Entry(m, sc, ch) == [isDict |-> TRUE, method |-> m, score |-> sc, expected_channels |-> ch]
NotADict == [isDict |-> FALSE, method |-> JAbsent, score |-> JAbsent, expected_channels |-> JAbsent]

\* The contexts _build_analysis_context can build.
Contexts ==
    [color_count : 0..MaxColorCount, edge_type : {"sharp", "mixed"},
     has_gradients : BOOLEAN, texture_type : {"photo", "mixed"}]

\* The rules tried in another order: the colour-count rule before the
\* sharp-edge rule.
RulePrimary_CountRuleFirst(ctx) ==
    IF 6 <= ctx.color_count /\ ctx.color_count <= 12
        THEN [method |-> "index_color", score |-> 80]
    ELSE IF ctx.color_count <= 6 /\ ctx.edge_type = "sharp" /\ ~ctx.has_gradients
        THEN [method |-> "spot_color", score |-> 90]
    ELSE IF ctx.texture_type = "photo" /\ ctx.has_gradients
        THEN [method |-> "simulated_process", score |-> 85]
    ELSE [method |-> "simulated_process", score |-> 75]

\* _get_rule_based_recommendations, lines 228-251: the primary method and its score.
RulePrimary(ctx) ==
    IF ctx.color_count <= 6 /\ ctx.edge_type = "sharp" /\ ~ctx.has_gradients
        THEN [method |-> "spot_color", score |-> 90]
    ELSE IF ctx.texture_type = "photo" /\ ctx.has_gradients
        THEN [method |-> "simulated_process", score |-> 85]
    ELSE IF 6 <= ctx.color_count /\ ctx.color_count <= 12
        THEN [method |-> "index_color", score |-> 80]
    ELSE [method |-> "simulated_process", score |-> 75]

\* _get_rule_based_recommendations, lines 253-276.
RuleBasedRecommendations(ctx) ==
    [hasRecommended |-> TRUE,
     recommended    |-> Entry(JStr(RulePrimary(ctx).method), JNum(RulePrimary(ctx).score),
                              JNum(Min(ctx.color_count, 8))),
     alternatives   |-> [kind |-> "list",
                         items |-> << Entry(JStr("cmyk"), JNum(65), JNum(4)) >>]]

\* _parse_ai_response gives {} when the text holds no JSON or malformed JSON.
EmptyDict ==
    [hasRecommended |-> FALSE, recommended |-> NotADict,
     alternatives |-> [kind |-> "absent", items |-> << >>]]

\* The entries the advisory service can send.
ServiceEntries ==
    { Entry(m, sc, JNum(4)) :
        m  \in {JStr("index_color"), JStr("screen_tone"), JNum(5), JAbsent},
        sc \in {JNum(95), JNum(60), JStr("high"), JAbsent} }
    \cup {NotADict}

AlternativeEntries ==
    { Entry(JStr("cmyk"), JNum(70), JNum(4)),
      Entry(JStr("rgb"), JNum(99), JAbsent),
      Entry(JStr("spot_color"), JNum(70), JStr("four")),
      Entry(JStr("cmyk"), JNaN, JNum(4)) }

AlternativeLists == UNION { [1..n -> AlternativeEntries] : n \in 0..MaxAlternatives }

\* The JSON objects the advisory service can send.
ServiceData ==
    { [hasRecommended |-> h, recommended |-> r, alternatives |-> a] :
        h \in {TRUE}, r \in ServiceEntries,
        a \in [kind : {"list"}, items : AlternativeLists]
                \cup [kind : {"absent", "number"}, items : {<< >>}] }
    \cup { [hasRecommended |-> FALSE, recommended |-> NotADict, alternatives |-> a] :
        a \in [kind : {"list"}, items : AlternativeLists]
                \cup [kind : {"absent", "number"}, items : {<< >>}] }

\* What model.generate_content can do for a recommendation request.
AdvisorAnswers ==
    [kind : {"raises", "no_json", "bad_json"}, data : {EmptyDict}]
    \cup [kind : {"json"}, data : ServiceData]

\* _get_ai_recommendations, lines 125-131, with _parse_ai_response.
AiRecommendations(ans, ctx) ==
    CASE ans.kind = "raises" -> RuleBasedRecommendations(ctx)
      [] ans.kind \in {"no_json", "bad_json"} -> EmptyDict
      [] OTHER -> ans.data

\* _create_method_recommendation raises: .get on a value that is no dict,
\* .replace on a method that is no string, float() on a score that is no
\* number, a comparison or a division on a channel count that is no number.
CreateRaises(d) ==
    \/ ~d.isDict
    \/ d.method.t = "num"
    \/ d.score.t = "str"
    \/ d.expected_channels.t = "str"

\* _create_method_recommendation, lines 308-338.
CreateMethodRecommendation(d, ctx) ==
    [method |-> IF d.method.t = "str" /\ d.method.s \in SeparationMethod
                THEN d.method.s ELSE "spot_color",
     score  |-> IF d.score.t = "num" THEN d.score.n
                ELSE IF d.score.t = "nan" THEN 0 ELSE 50,
     score_is_nan |-> d.score.t = "nan",
     channel_count |-> IF d.expected_channels.t = "num" THEN d.expected_channels.n
                       ELSE ctx.color_count]

\* x.score < y.score on floats: false when either is NaN.
ScoreLess(x, y) == ~x.score_is_nan /\ ~y.score_is_nan /\ x.score < y.score

Reverse(ms) == [i \in 1..Len(ms) |-> ms[Len(ms) + 1 - i]]

\* The sort of a short list is a binary insertion sort: the place of pivot x
\* in the sorted prefix is found by bisection between l and r (0-based).
RECURSIVE InsertionPoint(_, _, _, _)
InsertionPoint(sorted, x, l, r) ==
    IF l >= r THEN l
    ELSE LET p == l + ((r - l) \div 2)
         IN  IF ScoreLess(x, sorted[p + 1])
             THEN InsertionPoint(sorted, x, l, p)
             ELSE InsertionPoint(sorted, x, p + 1, r)

InsertByScore(x, sorted) ==
    LET k == InsertionPoint(sorted, x, 0, Len(sorted))
    IN  SubSeq(sorted, 1, k) \o << x >> \o SubSeq(sorted, k + 1, Len(sorted))

\* The length of the run the list starts with, and whether it is descending
\* (strictly) or ascending.
RunDescending(ms) == Len(ms) > 1 /\ ScoreLess(ms[2], ms[1])

RunLength(ms) ==
    IF Len(ms) <= 1 THEN Len(ms)
    ELSE LET goes(i) == IF RunDescending(ms) THEN ScoreLess(ms[i], ms[i - 1])
                        ELSE ~ScoreLess(ms[i], ms[i - 1])
         IN  CHOOSE k \in 2..Len(ms) :
                /\ \A i \in 2..k : goes(i)
                /\ k < Len(ms) => ~goes(k + 1)

\* The elements after the first start are inserted one by one.
RECURSIVE BinarySort(_, _)
BinarySort(ms, start) ==
    IF start >= Len(ms) THEN ms
    ELSE BinarySort(InsertByScore(ms[start + 1], SubSeq(ms, 1, start))
                        \o SubSeq(ms, start + 2, Len(ms)),
                    start + 1)

\* list.sort(key=score, reverse=True): the list is reversed, sorted ascending
\* (its first run kept, or reversed when descending), and reversed again.
SortByScore(ms) ==
    LET rev == Reverse(ms)
        run == RunLength(rev)
        pre == IF RunDescending(rev) THEN Reverse(SubSeq(rev, 1, run)) ELSE SubSeq(rev, 1, run)
    IN  Reverse(BinarySort(pre \o SubSeq(rev, run + 1, Len(rev)), run))

\* _score_all_methods raises.
ScoreRaises(recs) ==
    \/ recs.hasRecommended /\ CreateRaises(recs.recommended)
    \/ recs.alternatives.kind = "number"
    \/ \E i \in 1..Len(recs.alternatives.items) : CreateRaises(recs.alternatives.items[i])

\* _score_all_methods, lines 285-299.
ScoreAllMethods(recs, ctx) ==
    SortByScore(
        (IF recs.hasRecommended
            THEN << CreateMethodRecommendation(recs.recommended, ctx) >> ELSE << >>)
        \o [i \in 1..Len(recs.alternatives.items) |->
                CreateMethodRecommendation(recs.alternatives.items[i], ctx)])

\* analyze_and_recommend, lines 84-88; None is the empty sequence.
Recommendations(scored) ==
    [recommended  |-> IF scored # << >> THEN << scored[1] >> ELSE << >>,
     alternatives |-> IF Len(scored) > 1 THEN SubSeq(scored, 2, Min(3, Len(scored))) ELSE << >>,
     all_methods  |-> scored]

NoRecommendations == [recommended |-> << >>, alternatives |-> << >>, all_methods |-> << >>]

\* analyze_and_recommend, lines 81-88, on the dict of recommendations.
FinishRecommend(recs, ctx) ==
    IF ScoreRaises(recs)
    THEN /\ maPc' = "raised"
         /\ maOut' = NoRecommendations
    ELSE /\ maPc' = "returned"
         /\ maOut' = Recommendations(ScoreAllMethods(recs, ctx))

\* analyze_and_recommend without a model (lines 68-88).
RecommendRuleBased ==
    /\ maPc = "idle"
    /\ ~hasModel
    /\ \E ctx \in Contexts :
        /\ maCtx' = ctx
        /\ maSvc' = [kind |-> "unavailable", data |-> EmptyDict]
        /\ FinishRecommend(RuleBasedRecommendations(ctx), ctx)
    /\ UNCHANGED hasModel
    /\ UNCHANGED << sepVars, fnVars >>

\* analyze_and_recommend with a model: _get_ai_recommendations builds the
\* prompt and blocks in model.generate_content (line 126).
RecommendRequest ==
    /\ maPc = "idle"
    /\ hasModel
    /\ \E ctx \in Contexts : maCtx' = ctx
    /\ maPc' = "waiting"
    /\ UNCHANGED << hasModel, maSvc, maOut >>
    /\ UNCHANGED << sepVars, fnVars >>

\* generate_content returns or raises (lines 126-131), then lines 81-88.
AdvisorServiceResponds ==
    /\ maPc = "waiting"
    /\ \E ans \in AdvisorAnswers :
        /\ maSvc' = ans
        /\ FinishRecommend(AiRecommendations(ans, maCtx), maCtx)
    /\ UNCHANGED << hasModel, maCtx >>
    /\ UNCHANGED << sepVars, fnVars >>

----------------------------------------------------------------------------
(* Specifications *)

NoAnalysis == [source |-> "none", keys |-> {}, regions |-> << >>]

NoRequest == [value |-> "none", isEnum |-> FALSE]

SepIdle ==
    /\ pc = "Idle"
    /\ method = NoRequest
    /\ palette = << >>
    /\ stageLog = << >>
    /\ raisedIn = "none"
    /\ engineLog = << >>
    /\ prelim = << >>
    /\ aiAnalysis = NoAnalysis
    /\ regionAnalysis = << >>
    /\ regionalResults = << >>
    /\ result = NoResult

NoContext ==
    [color_count |-> 0, edge_type |-> "mixed", has_gradients |-> FALSE, texture_type |-> "mixed"]

MaIdle ==
    /\ maPc = "idle"
    /\ maCtx = NoContext
    /\ maSvc = [kind |-> "none", data |-> EmptyDict]
    /\ maOut = NoRecommendations

\* No component is exercised on its own.
FnIdle ==
    /\ now = 0
    /\ fnIn = << >>
    /\ fnOut = << >>

Init ==
    /\ hasModel \in BOOLEAN
    /\ SepIdle
    /\ MaIdle
    /\ FnIdle

Next ==
    \/ Dispatch
    \/ RunEngine
    \/ Segment
    \/ AdviseRuleBased
    \/ AdviseRequest
    \/ ServiceResponds
    \/ RegionallySeparate
    \/ Merge

Spec == Init /\ [][Next]_vars

\* The program's own steps are taken when they can be; nothing makes the
\* advisory service answer.
FairSpec ==
    /\ Spec
    /\ WF_vars(Dispatch) /\ WF_vars(RunEngine) /\ WF_vars(Segment)
    /\ WF_vars(AdviseRuleBased) /\ WF_vars(AdviseRequest)
    /\ WF_vars(RegionallySeparate) /\ WF_vars(Merge)

\* The method advisor on its own: one analyze_and_recommend call.
NextAdvisor ==
    \/ RecommendRuleBased
    \/ RecommendRequest
    \/ AdvisorServiceResponds

SpecAdvisor == Init /\ [][NextAdvisor]_vars

----------------------------------------------------------------------------
(* The two advisors run again on the same inputs, without a model *)

MaxClock == 2

\* _estimate_processing_time, region_analyzer.py lines 383-396.
RECURSIVE EstimateProcessingTime(_)
EstimateProcessingTime(regs) ==
    IF regs = << >> THEN 5
    ELSE LET r == regs[Len(regs)]
             t == CASE r.recommended_method = "spot_color"        -> 2
                    [] r.recommended_method = "simulated_process" -> 10
                    [] r.recommended_method = "index_color"       -> 5
                    [] OTHER                                      -> 0
         IN  t + EstimateProcessingTime(SubSeq(regs, 1, Len(regs) - 1))

\* A result whose processing time is measured on the clock, not estimated.
RegionAnalysisResult_MeasuredTime(ai, pre, t) ==
    [regions                   |-> BuildRegions(ai, pre),
     region_count              |-> Len(BuildRegions(ai, pre)),
     method_assignments        |-> { << BuildRegions(ai, pre)[k].id,
                                        BuildRegions(ai, pre)[k].recommended_method >> :
                                        k \in 1..Len(BuildRegions(ai, pre)) },
     estimated_processing_time |-> t,
     gemini_response           |-> ai,
     timestamp                 |-> t]

\* _build_region_analysis_result, lines 339-355: the RegionAnalysisResult
\* built at clock reading t.
RegionAnalysisResult(ai, pre, t) ==
    [regions                   |-> BuildRegions(ai, pre),
     region_count              |-> Len(BuildRegions(ai, pre)),
     method_assignments        |-> { << BuildRegions(ai, pre)[k].id,
                                        BuildRegions(ai, pre)[k].recommended_method >> :
                                        k \in 1..Len(BuildRegions(ai, pre)) },
     estimated_processing_time |-> EstimateProcessingTime(BuildRegions(ai, pre)),
     gemini_response           |-> ai,
     timestamp                 |-> t]

\* analyze_regions without a model, on the preliminary regions pre.
FallbackRegionAnalysis(pre, t) == RegionAnalysisResult(RuleBasedAnalysis(pre), pre, t)

\* analyze_and_recommend without a model, on the context ctx.
FallbackRecommendations(ctx) ==
    Recommendations(ScoreAllMethods(RuleBasedRecommendations(ctx), ctx))

\* The inputs of the repeated runs: what the segmenter finds in the image, and
\* the context of the recommendation.
RepeatInputs == [pre : {CharacterizeRegions(ms) : ms \in MetricLists}, ctx : Contexts]

NoRuns == [region |-> << >>, recommend |-> << >>]

InitRepeat ==
    /\ hasModel = FALSE
    /\ SepIdle
    /\ MaIdle
    /\ now = 0
    /\ fnIn \in RepeatInputs
    /\ fnOut = NoRuns

\* Time passes between two calls.
Tick ==
    /\ now < MaxClock
    /\ now' = now + 1
    /\ UNCHANGED << hasModel, fnIn, fnOut >>
    /\ UNCHANGED << sepVars, maVars >>

\* One more RegionAnalyzer.analyze_regions call on the same image.
AnalyzeRegionsAgain ==
    /\ Len(fnOut.region) < 2
    /\ fnOut' = [fnOut EXCEPT !.region = Append(@, FallbackRegionAnalysis(fnIn.pre, now))]
    /\ UNCHANGED << hasModel, now, fnIn >>
    /\ UNCHANGED << sepVars, maVars >>

\* One more AIMethodAnalyzer.analyze_and_recommend call on the same data.
RecommendAgain ==
    /\ Len(fnOut.recommend) < 2
    /\ fnOut' = [fnOut EXCEPT !.recommend = Append(@, FallbackRecommendations(fnIn.ctx))]
    /\ UNCHANGED << hasModel, now, fnIn >>
    /\ UNCHANGED << sepVars, maVars >>

NextRepeat ==
    \/ Tick
    \/ AnalyzeRegionsAgain
    \/ RecommendAgain

SpecRepeat == InitRepeat /\ [][NextRepeat]_vars

----------------------------------------------------------------------------
(* ChannelMerger.merge_regional_channels on rasters, hard edges *)

MaxPixels == 2
MaxMergeRegions == 2

MergePixels == 1..MaxPixels

Max(a, b) == IF a > b THEN a ELSE b

\* Rasters of channel values (uint8), one value per pixel.
Flat(v) == [p \in MergePixels |-> v]
Ramp == [p \in MergePixels |-> IF p % 2 = 1 THEN 255 ELSE 0]
Rasters == {Flat(100), Ramp}

\* Palette colours: Crimson has the RGB of Red under another name.
Ink(n, c) == [name |-> n, rgb |-> c]
Red == Ink("Red", << 220, 20, 60 >>)
Blue == Ink("Blue", << 0, 0, 255 >>)
Crimson == Ink("Crimson", << 220, 20, 60 >>)

MergePalettes == { << Red >>, << Red, Blue >>, << Red, Crimson >> }

\* What RegionalSeparator hands to the merger for one region: the channels of
\* a palette-driven engine (one per palette colour, named after it and
\* carrying its rgb), or no channel for a region that failed.
RegionalOutputs(pal) ==
    { [success |-> TRUE, mask |-> m,
       channels |-> [i \in 1..Len(pal) |->
                        [name |-> pal[i].name, rgb |-> pal[i].rgb, data |-> d[i]]]] :
        m \in SUBSET MergePixels, d \in [1..Len(pal) -> Rasters] }
    \cup [success : {FALSE}, mask : SUBSET MergePixels, channels : {<< >>}]

MergeInputs ==
    UNION { [palette : {pal}, blend_edges : {FALSE},
             results : UNION { [1..n -> RegionalOutputs(pal)] : n \in 0..MaxMergeRegions }] :
            pal \in MergePalettes }

\* _find_matching_channel, lines 149-156: the position of the first channel
\* that has the colour's name or the colour's rgb; 0 for None.
FindMatchingChannel(chans, color) ==
    LET hits == {i \in 1..Len(chans) : chans[i].name = color.name \/ chans[i].rgb = color.rgb}
    IN  IF hits = {} THEN 0 ELSE CHOOSE i \in hits : \A j \in hits : i <= j

\* A merge in which a region overwrites what is there.
HardEdge_Overwrite(old, new) == new

\* Lines 86-89: merged_data[mask] = np.maximum(merged_data[mask], data[mask]).
HardEdge(old, new) == Max(old, new)

\* Lines 60-89: the accumulator of one colour after the first k regional results.
RECURSIVE Accumulate(_, _, _)
Accumulate(results, color, k) ==
    IF k = 0 THEN Flat(0)
    ELSE LET prev == Accumulate(results, color, k - 1)
             r    == results[k]
             m    == FindMatchingChannel(r.channels, color)
         IN  IF ~r.success \/ m = 0 THEN prev
             ELSE [p \in MergePixels |->
                      IF p \in r.mask THEN HardEdge(prev[p], r.channels[m].data[p])
                      ELSE prev[p]]

\* Line 92: np.clip(merged_data, 0, 255).astype(np.uint8).
Clip(v) == IF v < 0 THEN 0 ELSE IF v > 255 THEN 255 ELSE v

\* Lines 53-113: one merged channel per palette colour.
MergeChannels(results, pal) ==
    [i \in 1..Len(pal) |->
        LET acc  == Accumulate(results, pal[i], Len(results))
            data == [p \in MergePixels |-> Clip(acc[p])]
        IN  [name           |-> pal[i].name,
             order          |-> i,
             halftone_angle |-> 45 + 15 * (i - 1),
             data           |-> data,
             pixel_count    |-> Cardinality({p \in MergePixels : data[p] > 0})]]

InitMerge ==
    /\ hasModel = FALSE
    /\ SepIdle
    /\ MaIdle
    /\ now = 0
    /\ fnIn \in MergeInputs
    /\ fnOut = << >>

MergeCall ==
    /\ fnOut = << >>
    /\ fnOut' = << MergeChannels(fnIn.results, fnIn.palette) >>
    /\ UNCHANGED << hasModel, now, fnIn >>
    /\ UNCHANGED << sepVars, maVars >>

NextMerge == MergeCall

SpecMerge == InitMerge /\ [][NextMerge]_vars

----------------------------------------------------------------------------
(* IndexColorEngine.separate on grey images and grey palettes *)

MaxCols == 3

\* One Lab unit: 16^5, so that the sixteenths of an error stay whole numbers
\* along the longest chain of pixels an error is handed down.
LabUnit == 1048576

DitherRows == 1..2
DitherCols == 1..MaxCols
Positions == DitherRows \X DitherCols

\* The L values of pixels and of palette colours (a = b = 0 for both, so the
\* Lab distance of two colours is the difference of their L values).
PixelLevels == {30 * LabUnit, 80 * LabUnit}
PaletteLevels == {0, 50 * LabUnit, 100 * LabUnit}

IndexInputs ==
    [image         : [Positions -> PixelLevels],
     palette_lab   : UNION { [1..n -> PaletteLevels] : n \in 0..MaxPalette },
     dither_method : {"floyd_steinberg", "none"}]

\* np.sqrt(np.sum((palette_array - pixel) ** 2)) for two grey colours.
LabDistance(a, b) == IF a >= b THEN a - b ELSE b - a

\* np.argmin(distances): the first index of a smallest distance (1-based here).
ArgMin(pal, pixel) ==
    CHOOSE c \in 1..Len(pal) :
        /\ \A j \in 1..Len(pal) : LabDistance(pal[c], pixel) <= LabDistance(pal[j], pixel)
        /\ \A j \in 1..(c - 1) : LabDistance(pal[j], pixel) > LabDistance(pal[c], pixel)

\* Shares in which the pixel below and the pixel below-left change places.
ErrorShares_BelowSwapped(y, x) ==
    { sh \in { [pos |-> << y, x + 1 >>,     weight |-> 7],
               [pos |-> << y + 1, x - 1 >>, weight |-> 5],
               [pos |-> << y + 1, x >>,     weight |-> 3],
               [pos |-> << y + 1, x + 1 >>, weight |-> 1] } :
        sh.pos \in Positions }

\* Lines 141-151 (and simulated_process_engine.py lines 165-175): the shares
\* of the error and the pixels they go to, those outside the image left out.
ErrorShares(y, x) ==
    { sh \in { [pos |-> << y, x + 1 >>,     weight |-> 7],
               [pos |-> << y + 1, x - 1 >>, weight |-> 3],
               [pos |-> << y + 1, x >>,     weight |-> 5],
               [pos |-> << y + 1, x + 1 >>, weight |-> 1] } :
        sh.pos \in Positions }

\* Lines 125-151: the pixels from the k-th on (row-major, 0-based k) are
\* quantized on the working copy; st holds the working copy, the indices and
\* a log of each visit: the pixel, its error and what was added to each pixel.
RECURSIVE FloydSteinberg(_, _, _)
FloydSteinberg(st, pal, k) ==
    IF k >= Cardinality(Positions) THEN st
    ELSE LET y   == (k \div MaxCols) + 1
             x   == (k % MaxCols) + 1
             old == st.working[<< y, x >>]
             c   == ArgMin(pal, old)
             err == old - pal[c]
             add(pos) == IF \E sh \in ErrorShares(y, x) : sh.pos = pos
                         THEN ((CHOOSE sh \in ErrorShares(y, x) : sh.pos = pos).weight * err) \div 16
                         ELSE 0
         IN  FloydSteinberg(
                [working |-> [pos \in Positions |->
                                IF pos = << y, x >> THEN pal[c] ELSE st.working[pos] + add(pos)],
                 indices |-> [st.indices EXCEPT ![<< y, x >>] = c],
                 log     |-> Append(st.log, [pos   |-> << y, x >>,
                                             error |-> err,
                                             added |-> [pos \in Positions |-> add(pos)]])],
                pal, k + 1)

\* _quantize_to_palette, lines 108-158: the colour index of every pixel, and
\* the log of the diffusion.
QuantizeToPalette(image, pal, dither) ==
    IF dither = "floyd_steinberg"
    THEN FloydSteinberg([working |-> image, indices |-> [pos \in Positions |-> 0],
                         log |-> << >>], pal, 0)
    ELSE [working |-> image, indices |-> [pos \in Positions |-> ArgMin(pal, image[pos])],
          log |-> << >>]

\* A mask of the pixels whose index is at least the colour's.
IndexMask_UpToIndex(indices, i) == [pos \in Positions |-> IF indices[pos] >= i THEN 255 ELSE 0]

\* Line 53: mask = (color_indices == idx).astype(np.uint8) * 255.
IndexMask(indices, i) == [pos \in Positions |-> IF indices[pos] = i THEN 255 ELSE 0]

\* separate, lines 41-78; with an empty palette the distance computation raises.
IndexSeparate(in) ==
    IF in.palette_lab = << >>
    THEN [raised |-> TRUE, indices |-> [pos \in Positions |-> 0], channels |-> << >>,
          diffusion |-> << >>]
    ELSE LET quantized == QuantizeToPalette(in.image, in.palette_lab, in.dither_method)
             indices   == quantized.indices
         IN  [raised    |-> FALSE,
              indices   |-> indices,
              diffusion |-> quantized.log,
              channels |-> [i \in 1..Len(in.palette_lab) |->
                              [order |-> i, data |-> IndexMask(indices, i)]]]

InitIndex ==
    /\ hasModel = FALSE
    /\ SepIdle
    /\ MaIdle
    /\ now = 0
    /\ fnIn \in IndexInputs
    /\ fnOut = << >>

IndexSeparateCall ==
    /\ fnOut = << >>
    /\ fnOut' = << IndexSeparate(fnIn) >>
    /\ UNCHANGED << hasModel, now, fnIn >>
    /\ UNCHANGED << sepVars, maVars >>

NextIndex == IndexSeparateCall

SpecIndex == InitIndex /\ [][NextIndex]_vars

----------------------------------------------------------------------------
(* The two Floyd-Steinberg loops: IndexColorEngine._quantize_to_palette and
   SimulatedProcessEngine._apply_error_diffusion *)

\* Values of a channel before dithering, in the units of LabUnit.
ChannelLevels == {100 * LabUnit, 200 * LabUnit}

DitherInputs ==
    { in \in IndexInputs : in.dither_method = "floyd_steinberg" /\ in.palette_lab # << >> }
    \cup [channel_data : [Positions -> ChannelLevels]]

\* simulated_process_engine.py lines 159-175: the pixels from the k-th on are
\* set to 255 or 0 on the working copy, with the same log as FloydSteinberg.
RECURSIVE ErrorDiffusion(_, _)
ErrorDiffusion(st, k) ==
    IF k >= Cardinality(Positions) THEN st
    ELSE LET y       == (k \div MaxCols) + 1
             x       == (k % MaxCols) + 1
             old_val == st.dithered[<< y, x >>]
             new_val == IF old_val > 127 * LabUnit THEN 255 * LabUnit ELSE 0
             error   == old_val - new_val
             add(pos) == IF \E sh \in ErrorShares(y, x) : sh.pos = pos
                         THEN ((CHOOSE sh \in ErrorShares(y, x) : sh.pos = pos).weight * error) \div 16
                         ELSE 0
         IN  ErrorDiffusion(
                [dithered |-> [pos \in Positions |->
                                 IF pos = << y, x >> THEN new_val ELSE st.dithered[pos] + add(pos)],
                 log      |-> Append(st.log, [pos   |-> << y, x >>,
                                              error |-> error,
                                              added |-> [pos \in Positions |-> add(pos)]])],
                k + 1)

\* _apply_error_diffusion, lines 154-177: the channel after np.clip and
\* astype(np.uint8), and the log of the diffusion.
ApplyErrorDiffusion(channel_data) ==
    LET done == ErrorDiffusion([dithered |-> channel_data, log |-> << >>], 0)
    IN  [data      |-> [pos \in Positions |-> Clip(done.dithered[pos] \div LabUnit)],
         diffusion |-> done.log]

InitDither ==
    /\ hasModel = FALSE
    /\ SepIdle
    /\ MaIdle
    /\ now = 0
    /\ fnIn \in DitherInputs
    /\ fnOut = << >>

\* IndexColorEngine.separate with dither_method = 'floyd_steinberg'.
QuantizeCall ==
    /\ fnOut = << >>
    /\ "palette_lab" \in DOMAIN fnIn
    /\ fnOut' = << IndexSeparate(fnIn) >>
    /\ UNCHANGED << hasModel, now, fnIn >>
    /\ UNCHANGED << sepVars, maVars >>

\* SimulatedProcessEngine._apply_error_diffusion on one channel.
ErrorDiffusionCall ==
    /\ fnOut = << >>
    /\ "channel_data" \in DOMAIN fnIn
    /\ fnOut' = << ApplyErrorDiffusion(fnIn.channel_data) >>
    /\ UNCHANGED << hasModel, now, fnIn >>
    /\ UNCHANGED << sepVars, maVars >>

NextDither == QuantizeCall \/ ErrorDiffusionCall

SpecDither == InitDither /\ [][NextDither]_vars

----------------------------------------------------------------------------
(* CMYKEngine.separate *)

\* Values of one colour component. On these values the float32 quotients of
\* _rgb_to_cmyk, scaled by 255 and truncated to uint8, are the whole numbers
\* the exact quotients truncate to.
ComponentLevels == {0, 64, 255}

RgbPixels == ComponentLevels \X ComponentLevels \X ComponentLevels

CmykInputs ==
    [image   : [MergePixels -> RgbPixels],
     palette : {<< >>} \cup MergePalettes]

\* np.max(rgb_normalized, axis=2) on one pixel, before the division by 255.
MaxComponent(px) == Max(px[1], Max(px[2], px[3]))

\* A conversion without the black channel: each ink is the complement of its
\* component and K stays 0.
RgbToCmyk_WithoutBlack(px) ==
    << 255 - px[1], 255 - px[2], 255 - px[3], 0 >>

\* _rgb_to_cmyk, lines 95-121, on one pixel: k = 1 - max/255; k_inv = 1 - k,
\* replaced by 1e-10 where it is 0 (the numerators are 0 there, so are the
\* quotients); c, m, y = (1 - component/255 - k) / k_inv; all four scaled by
\* 255, clipped to 0..255 and truncated.
RgbToCmyk(px) ==
    LET mx == MaxComponent(px)
        ink(v) == IF mx = 0 THEN 0 ELSE Clip(((mx - v) * 255) \div mx)
    IN  << ink(px[1]), ink(px[2]), ink(px[3]), Clip(255 - mx) >>

\* Lines 40-65: the four channel definitions, in the order of the list.
CmykChannels ==
    << [name |-> "Cyan",    angle |-> 15],
       [name |-> "Magenta", angle |-> 75],
       [name |-> "Yellow",  angle |-> 0],
       [name |-> "Black",   angle |-> 45] >>

\* separate, lines 17-93; the palette is not read.
CmykSeparate(in) ==
    [idx \in 1..Len(CmykChannels) |->
        LET data == [p \in MergePixels |-> RgbToCmyk(in.image[p])[idx]]
        IN  [name           |-> CmykChannels[idx].name,
             data           |-> data,
             order          |-> idx,
             halftone_angle |-> CmykChannels[idx].angle,
             pixel_count    |-> Cardinality({p \in MergePixels : data[p] > 0})]]

InitCmyk ==
    /\ hasModel = FALSE
    /\ SepIdle
    /\ MaIdle
    /\ now = 0
    /\ fnIn \in CmykInputs
    /\ fnOut = << >>

CmykSeparateCall ==
    /\ fnOut = << >>
    /\ fnOut' = << CmykSeparate(fnIn) >>
    /\ UNCHANGED << hasModel, now, fnIn >>
    /\ UNCHANGED << sepVars, maVars >>

NextCmyk == CmykSeparateCall

SpecCmyk == InitCmyk /\ [][NextCmyk]_vars

----------------------------------------------------------------------------
(* SpotColorEngine.separate on grey images and grey palettes *)

MaxSpotColors == 4

\* L values of pixels and of palette colours, and the tolerances passed in
\* (the engine's default and the one RegionalSeparator gives soft regions).
SpotPixelLevels == {0, 5, 50}
SpotPaletteLevels == {0, 50}
SpotTolerances == {10, 20}

SpotInputs ==
    [image           : [MergePixels -> SpotPixelLevels],
     palette_lab     : UNION { [1..n -> SpotPaletteLevels] : n \in 0..MaxSpotColors },
     color_tolerance : SpotTolerances]

\* _extract_color_channel, lines 107-137: 0 beyond the tolerance, else
\* 255 * (1 - delta_e / tolerance) truncated.
ExtractColorChannel(image, target, tolerance) ==
    [p \in MergePixels |->
        LET delta_e == LabDistance(image[p], target)
        IN  IF delta_e <= tolerance
            THEN (255 * (tolerance - delta_e)) \div tolerance
            ELSE 0]

\* separate, lines 36-74.
SpotSeparate(in) ==
    [i \in 1..Len(in.palette_lab) |->
        LET channel_data == ExtractColorChannel(in.image, in.palette_lab[i], in.color_tolerance)
        IN  [order          |-> i,
             data           |-> channel_data,
             halftone_angle |-> 45 + ((i - 1) * 15),
             pixel_count    |-> Cardinality({p \in MergePixels : channel_data[p] > 0})]]

InitSpot ==
    /\ hasModel = FALSE
    /\ SepIdle
    /\ MaIdle
    /\ now = 0
    /\ fnIn \in SpotInputs
    /\ fnOut = << >>

SpotSeparateCall ==
    /\ fnOut = << >>
    /\ fnOut' = << SpotSeparate(fnIn) >>
    /\ UNCHANGED << hasModel, now, fnIn >>
    /\ UNCHANGED << sepVars, maVars >>

NextSpot == SpotSeparateCall

SpecSpot == InitSpot /\ [][NextSpot]_vars

----------------------------------------------------------------------------
(* RegionSegmenter._combine_segmentations *)

MaxCells == 4

\* The image is cut into cells, each a block of pixels that every technique
\* labels as a whole; a mask is a set of cells.
Cells == 1..MaxCells

\* The number of pixels of each cell.
CellPixels == << 200, 400, 600, 1100, 300, 700 >>

RECURSIVE MaskSum(_)
\* np.sum(mask): the number of pixels of a mask.
MaskSum(mask) ==
    IF mask = {} THEN 0
    ELSE LET c == CHOOSE c \in mask : TRUE
         IN  CellPixels[c] + MaskSum(mask \ {c})

\* The labellings ndimage.label and slic can give with up to two labels:
\* labels are numbered in scan order (0 is background).
ScanOrdered(labeled) ==
    \A c \in Cells : labeled[c] = 2 => \E d \in 1..(c - 1) : labeled[d] = 1

Labellings(background) ==
    { labeled \in [Cells -> background \cup {1, 2}] : ScanOrdered(labeled) }

\* The mask of every label, in label order.
LabelMasks(labeled) == [i \in 1..2 |-> {c \in Cells : labeled[c] = i}]

EdgeSizeOk(mask) == MaskSum(mask) > 100

\* _segment_by_edges, lines 142-150: components of more than 100 pixels.
EdgeRegions(labeled) == SelectSeq(LabelMasks(labeled), EdgeSizeOk)

\* _segment_by_color, lines 187-196 and 212-222: segments of at least
\* min_region_size pixels.
ColorRegions(segments, min_region_size) ==
    LET sizeOk(mask) == MaskSum(mask) >= min_region_size
    IN  SelectSeq(LabelMasks(segments), sizeOk)

\* What segment_image hands to _combine_segmentations (lines 60-85): the
\* components of the dilated edges, the colour segments, and the textured
\* mask with its complement.
CombineInputs ==
    { [edge_regions    |-> EdgeRegions(edges),
       color_regions   |-> ColorRegions(segments, min_region_size),
       texture_regions |-> << textured, Cells \ textured >>] :
        edges \in Labellings({0}),
        segments \in Labellings({}),
        min_region_size \in {300, 1000},
        textured \in SUBSET Cells }

\* combined.append(mask); vote_map[mask] = region_id; region_id += 1, with a
\* note of the technique and of the pixels assigned before.
AddRegion(st, mask, technique) ==
    [combined |-> Append(st.combined,
                         [mask |-> mask, technique |-> technique, assigned_before |-> st.assigned]),
     assigned |-> st.assigned \cup mask]

\* Lines 283-287.
RECURSIVE EdgePass(_, _, _)
EdgePass(st, masks, k) ==
    IF k > Len(masks) THEN st
    ELSE EdgePass(IF MaskSum(masks[k]) > 500 THEN AddRegion(st, masks[k], "edge") ELSE st,
                  masks, k + 1)

\* A colour pass that adds the colour region whole.
RECURSIVE ColorPass_Whole(_, _, _)
ColorPass_Whole(st, masks, k) ==
    IF k > Len(masks) THEN st
    ELSE ColorPass_Whole(IF MaskSum(masks[k]) > 500 /\ MaskSum(masks[k] \ st.assigned) > 500
                         THEN AddRegion(st, masks[k], "color") ELSE st,
                         masks, k + 1)

\* Lines 290-297.
RECURSIVE ColorPass(_, _, _)
ColorPass(st, masks, k) ==
    IF k > Len(masks) THEN st
    ELSE LET unassigned == masks[k] \ st.assigned
         IN  ColorPass(IF MaskSum(masks[k]) > 500 /\ MaskSum(unassigned) > 500
                       THEN AddRegion(st, unassigned, "color") ELSE st,
                       masks, k + 1)

\* Lines 301-306.
RECURSIVE TexturePass(_, _, _)
TexturePass(st, masks, k) ==
    IF k > Len(masks) THEN st
    ELSE LET unassigned == masks[k] \ st.assigned
         IN  TexturePass(IF MaskSum(unassigned) > 1000
                         THEN AddRegion(st, unassigned, "texture") ELSE st,
                         masks, k + 1)

\* _combine_segmentations, lines 264-308.
CombineSegmentations(in) ==
    LET start == [combined |-> << >>, assigned |-> {}]
        voted == ColorPass(EdgePass(start, in.edge_regions, 1), in.color_regions, 1)
    IN  IF Len(voted.combined) < 2
        THEN TexturePass(voted, in.texture_regions, 1).combined
        ELSE voted.combined

InitCombine ==
    /\ hasModel = FALSE
    /\ SepIdle
    /\ MaIdle
    /\ now = 0
    /\ fnIn \in CombineInputs
    /\ fnOut = << >>

CombineCall ==
    /\ fnOut = << >>
    /\ fnOut' = << CombineSegmentations(fnIn) >>
    /\ UNCHANGED << hasModel, now, fnIn >>
    /\ UNCHANGED << sepVars, maVars >>

NextCombine == CombineCall

SpecCombine == InitCombine /\ [][NextCombine]_vars

----------------------------------------------------------------------------
(* The arrays of a separation run: which are copies, which are views, and
   where the code writes in place.  The image is one row of grey samples. *)

\* The heap is the sequence of the arrays allocated so far; an array is known
\* by its position. The caller's image is array 1.
CallerImage == 1

\* A new array with this content: np.zeros, np.stack, arithmetic on arrays.
AllocArray(heap, content) == [heap |-> Append(heap, content), id |-> Len(heap) + 1]

\* An assignment that binds the same array to another name.
CopyArray_Alias(heap, id) == [heap |-> heap, id |-> id]

\* ndarray.copy() and ndarray.astype(): a new array with the same content.
CopyArray(heap, id) == AllocArray(heap, heap[id])

\* array[pixels] = v, in place.
StoreAt(heap, id, pixels, v) ==
    [heap EXCEPT ![id] = [p \in MergePixels |-> IF p \in pixels THEN v ELSE @[p]]]

\* RegionalSeparator._extract_region_image, lines 109-123: white is 255 for a
\* uint8 image and 100 for a Lab image.
ExtractRegionImage(heap, image, mask, white) ==
    LET region_image == CopyArray(heap, image)
    IN  [heap |-> StoreAt(region_image.heap, region_image.id, MergePixels \ mask, white),
         id   |-> region_image.id]

\* _rgb_to_lab of the engines: rgb_array.astype(np.float32) / 255.0 and the
\* arrays computed from it; L of a grey sample, 0..100.
RgbToLab(heap, rgb) == AllocArray(heap, [p \in MergePixels |-> (heap[rgb][p] * 100) \div 255])

\* The loop of _quantize_to_palette lines 129-151 and of
\* _apply_error_diffusion lines 159-175 on a one-row working array, from
\* pixel x on: the pixel is overwritten with lo or hi, and 7/16 of the error
\* is added to the pixel on its right.
RECURSIVE DiffuseInPlace(_, _, _, _, _)
DiffuseInPlace(heap, working, x, lo, hi) ==
    IF x > MaxPixels THEN heap
    ELSE LET old_pixel == heap[working][x]
             new_pixel == IF 2 * old_pixel > lo + hi THEN hi ELSE lo
             error     == old_pixel - new_pixel
             written   == StoreAt(heap, working, {x}, new_pixel)
         IN  DiffuseInPlace(
                IF x + 1 <= MaxPixels
                THEN StoreAt(written, working, {x + 1}, written[working][x + 1] + ((error * 7) \div 16))
                ELSE written,
                working, x + 1, lo, hi)

\* IndexColorEngine.separate with a palette of black and white: lab_array,
\* the working copy when dithering, and one new mask array per colour.
IndexArrays(heap, rgb, dither) ==
    LET lab     == RgbToLab(heap, rgb)
        working == CopyArray(lab.heap, lab.id)
        after   == IF dither THEN DiffuseInPlace(working.heap, working.id, 1, 0, 100) ELSE lab.heap
        indices == IF dither THEN after[working.id]
                   ELSE [p \in MergePixels |-> IF after[lab.id][p] > 50 THEN 100 ELSE 0]
        black   == AllocArray(after, [p \in MergePixels |-> IF indices[p] = 0 THEN 255 ELSE 0])
        white   == AllocArray(black.heap, [p \in MergePixels |-> IF indices[p] = 100 THEN 255 ELSE 0])
    IN  [heap |-> white.heap, channels |-> << black.id, white.id >>]

\* SimulatedProcessEngine.separate with one ink: lab_array, the channel of
\* _spectral_separation, and with error diffusion its copy, written in place.
SimulatedArrays(heap, rgb, dither) ==
    LET lab      == RgbToLab(heap, rgb)
        channel  == AllocArray(lab.heap, [p \in MergePixels |-> (lab.heap[lab.id][p] * 255) \div 100])
        dithered == CopyArray(channel.heap, channel.id)
    IN  IF dither
        THEN [heap |-> DiffuseInPlace(dithered.heap, dithered.id, 1, 0, 255), channels |-> << dithered.id >>]
        ELSE [heap |-> channel.heap, channels |-> << channel.id >>]

\* SpotColorEngine.separate with one white ink: lab_array, then
\* channel_data = np.zeros(...) and channel_data[mask] = ..., in place.
SpotArrays(heap, rgb) ==
    LET lab     == RgbToLab(heap, rgb)
        channel == AllocArray(lab.heap, [p \in MergePixels |-> 0])
        mask    == {p \in MergePixels : lab.heap[lab.id][p] >= 90}
    IN  [heap |-> StoreAt(channel.heap, channel.id, mask, 255), channels |-> << channel.id >>]

\* CMYKEngine.separate: cmyk_array is new, the channels are views of it.
CmykArrays(heap, rgb) ==
    LET cmyk == AllocArray(heap, [p \in MergePixels |-> 255 - heap[rgb][p]])
    IN  [heap |-> cmyk.heap, channels |-> << cmyk.id, cmyk.id, cmyk.id, cmyk.id >>]

\* RGBEngine.separate, lines 37-57: the channels are views of rgb_array.
RgbArrays(heap, rgb) == [heap |-> heap, channels |-> << rgb, rgb, rgb >>]

EngineArrays(engine, heap, rgb, dither) ==
    CASE engine = "index_color"       -> IndexArrays(heap, rgb, dither)
      [] engine = "simulated_process" -> SimulatedArrays(heap, rgb, dither)
      [] engine = "spot_color"        -> SpotArrays(heap, rgb)
      [] engine = "cmyk"              -> CmykArrays(heap, rgb)
      [] engine = "rgb"               -> RgbArrays(heap, rgb)

\* RegionalSeparator.separate_regions, lines 53-99, from region k on: the
\* region's images are extracted and the RGB one is handed to the region's
\* engine; a failed region leaves no channels.
RECURSIVE RegionArrays(_, _, _, _)
RegionArrays(st, lab_image, regions, k) ==
    IF k > Len(regions) THEN st
    ELSE LET region_rgb == ExtractRegionImage(st.heap, CallerImage, regions[k].mask, 255)
             region_lab == ExtractRegionImage(region_rgb.heap, lab_image, regions[k].mask, 100)
             separated  == EngineArrays(regions[k].engine, region_lab.heap, region_rgb.id,
                                        regions[k].has_gradients)
         IN  RegionArrays([heap     |-> separated.heap,
                           channels |-> IF regions[k].fails THEN st.channels
                                        ELSE st.channels \o separated.channels],
                          lab_image, regions, k + 1)

\* HybridAIEngine.separate: lab_image is new, the regions are separated, and
\* ChannelMerger allocates the merged channel (np.zeros, line 62).
HybridArrays(heap, regions) ==
    LET lab_image == RgbToLab(heap, CallerImage)
        regional  == RegionArrays([heap |-> lab_image.heap, channels |-> << >>],
                                  lab_image.id, regions, 1)
        merged    == AllocArray(regional.heap,
                                [p \in MergePixels |->
                                    IF regional.channels = << >> THEN 0
                                    ELSE regional.heap[regional.channels[1]][p]])
    IN  [heap |-> merged.heap, channels |-> << merged.id >>]

FrameRegions ==
    [mask : SUBSET MergePixels \ {{}},
     engine : {"spot_color", "simulated_process", "index_color"},
     has_gradients : BOOLEAN,
     fails : {FALSE}]
    \cup [mask : {MergePixels}, engine : {"index_color"}, has_gradients : {TRUE}, fails : {TRUE}]

\* A hybrid run has no region, one, or two.
FrameRegionCounts == 0..2

FrameInputs ==
    [image   : [MergePixels -> {0, 200}],
     method  : {"spot_color", "simulated_process", "index_color", "cmyk", "rgb"},
     dither  : BOOLEAN,
     regions : {<< >>},
     fails   : BOOLEAN]
    \cup [image   : [MergePixels -> {0, 200}],
          method  : {"hybrid_ai"},
          dither  : {FALSE},
          regions : UNION { [1..n -> FrameRegions] : n \in FrameRegionCounts },
          fails   : BOOLEAN]

InitFrame ==
    /\ hasModel = FALSE
    /\ SepIdle
    /\ MaIdle
    /\ now = 0
    /\ fnIn \in FrameInputs
    /\ fnOut = << [heap |-> << fnIn.image >>, channels |-> << >>, returned |-> FALSE, success |-> FALSE] >>

\* execute_separation with an engine of its own: the engine runs on the
\* caller's array; when it raises, what it had written stays written.
ExecuteEngine ==
    /\ ~fnOut[1].returned
    /\ fnIn.method # "hybrid_ai"
    /\ LET run == EngineArrays(fnIn.method, fnOut[1].heap, CallerImage, fnIn.dither)
       IN  fnOut' = << [heap     |-> run.heap,
                        channels |-> IF fnIn.fails THEN << >> ELSE run.channels,
                        returned |-> TRUE,
                        success  |-> ~fnIn.fails] >>
    /\ UNCHANGED << hasModel, now, fnIn >>
    /\ UNCHANGED << sepVars, maVars >>

\* execute_separation with method HYBRID_AI.
ExecuteHybrid ==
    /\ ~fnOut[1].returned
    /\ fnIn.method = "hybrid_ai"
    /\ LET run == HybridArrays(fnOut[1].heap, fnIn.regions)
       IN  fnOut' = << [heap     |-> run.heap,
                        channels |-> IF fnIn.fails THEN << >> ELSE run.channels,
                        returned |-> TRUE,
                        success  |-> ~fnIn.fails] >>
    /\ UNCHANGED << hasModel, now, fnIn >>
    /\ UNCHANGED << sepVars, maVars >>

NextFrame == ExecuteEngine \/ ExecuteHybrid

SpecFrame == InitFrame /\ [][NextFrame]_vars

----------------------------------------------------------------------------
(* PaletteManager (src/core/color_match.py) *)

\* max_history, line 166, is 50; the model keeps a shorter history.
MaxHistory == 2

ManagedColors == {"red", "blue"}

\* The palettes the manager is given: up to two colours.
ManagedPalettes == UNION { [1..n -> ManagedColors] : n \in 0..2 }

\* The indices remove_color and replace_color are called with.
ManagedIndices == (0 - 1)..2

\* Lines 162-166, and a note of the last call: its name, what it returned,
\* whether it went through set_palette, the palette before it, and for an
\* undo whether the call before it was such a change.
NewManager ==
    [palette |-> << >>, undo_stack |-> << >>, redo_stack |-> << >>,
     last |-> [op |-> "init", returned |-> FALSE, changed |-> FALSE,
               before |-> << >>, after_change |-> FALSE]]

Called(pm, op, returned, changed) ==
    [op |-> op, returned |-> returned, changed |-> changed,
     before |-> IF op = "undo" THEN pm.last.before ELSE pm.palette,
     after_change |-> op = "undo" /\ pm.last.changed]

\* A set_palette that never drops the oldest entry.
SetPalette_Unlimited(pm, new_palette, op) ==
    [palette    |-> new_palette,
     undo_stack |-> IF pm.palette # << >> THEN Append(pm.undo_stack, pm.palette)
                    ELSE pm.undo_stack,
     redo_stack |-> << >>,
     last       |-> Called(pm, op, FALSE, TRUE)]

\* set_palette, lines 169-184, called as op.
SetPalette(pm, new_palette, op) ==
    LET saved == IF pm.palette # << >> THEN Append(pm.undo_stack, pm.palette)
                 ELSE pm.undo_stack
    IN  [palette    |-> new_palette,
         undo_stack |-> IF Len(saved) > MaxHistory THEN Tail(saved) ELSE saved,
         redo_stack |-> << >>,
         last       |-> Called(pm, op, FALSE, TRUE)]

\* list.pop(index) and list[index] = new_color, 0-based index.
WithoutIndex(colors, index) ==
    [i \in 1..(Len(colors) - 1) |-> IF i <= index THEN colors[i] ELSE colors[i + 1]]

\* A call that leaves the manager as it is.
NoChange(pm, op, returned) == [pm EXCEPT !.last = Called(pm, op, returned, FALSE)]

InitPalette ==
    /\ hasModel = FALSE
    /\ SepIdle
    /\ MaIdle
    /\ now = 0
    /\ fnIn = << >>
    /\ fnOut = << NewManager >>

\* set_palette, lines 169-184.
SetPaletteCall ==
    /\ \E new_palette \in ManagedPalettes :
            fnOut' = << SetPalette(fnOut[1], new_palette, "set_palette") >>
    /\ UNCHANGED << hasModel, now, fnIn >>
    /\ UNCHANGED << sepVars, maVars >>

\* add_color, lines 190-197.
AddColor ==
    /\ \E color \in ManagedColors :
            /\ Append(fnOut[1].palette, color) \in ManagedPalettes
            /\ fnOut' = << SetPalette(fnOut[1], Append(fnOut[1].palette, color), "add_color") >>
    /\ UNCHANGED << hasModel, now, fnIn >>
    /\ UNCHANGED << sepVars, maVars >>

\* remove_color, lines 199-209.
RemoveColor ==
    /\ \E index \in ManagedIndices :
            fnOut' = << IF 0 <= index /\ index < Len(fnOut[1].palette)
                        THEN SetPalette(fnOut[1], WithoutIndex(fnOut[1].palette, index),
                                        "remove_color")
                        ELSE NoChange(fnOut[1], "remove_color", FALSE) >>
    /\ UNCHANGED << hasModel, now, fnIn >>
    /\ UNCHANGED << sepVars, maVars >>

\* replace_color, lines 211-222.
ReplaceColor ==
    /\ \E index \in ManagedIndices, new_color \in ManagedColors :
            fnOut' = << IF 0 <= index /\ index < Len(fnOut[1].palette)
                        THEN SetPalette(fnOut[1],
                                        [fnOut[1].palette EXCEPT ![index + 1] = new_color],
                                        "replace_color")
                        ELSE NoChange(fnOut[1], "replace_color", FALSE) >>
    /\ UNCHANGED << hasModel, now, fnIn >>
    /\ UNCHANGED << sepVars, maVars >>

\* undo, lines 224-240.
Undo ==
    /\ LET pm == fnOut[1]
       IN  fnOut' = << IF pm.undo_stack = << >> THEN NoChange(pm, "undo", FALSE)
                       ELSE [palette    |-> pm.undo_stack[Len(pm.undo_stack)],
                             undo_stack |-> SubSeq(pm.undo_stack, 1, Len(pm.undo_stack) - 1),
                             redo_stack |-> Append(pm.redo_stack, pm.palette),
                             last       |-> Called(pm, "undo", TRUE, FALSE)] >>
    /\ UNCHANGED << hasModel, now, fnIn >>
    /\ UNCHANGED << sepVars, maVars >>

\* redo, lines 242-258.
Redo ==
    /\ LET pm == fnOut[1]
       IN  fnOut' = << IF pm.redo_stack = << >> THEN NoChange(pm, "redo", FALSE)
                       ELSE [palette    |-> pm.redo_stack[Len(pm.redo_stack)],
                             undo_stack |-> Append(pm.undo_stack, pm.palette),
                             redo_stack |-> SubSeq(pm.redo_stack, 1, Len(pm.redo_stack) - 1),
                             last       |-> Called(pm, "redo", TRUE, FALSE)] >>
    /\ UNCHANGED << hasModel, now, fnIn >>
    /\ UNCHANGED << sepVars, maVars >>

\* clear_history, lines 268-271.
ClearHistory ==
    /\ fnOut' = << [fnOut[1] EXCEPT !.undo_stack = << >>, !.redo_stack = << >>,
                                    !.last = Called(fnOut[1], "clear_history", FALSE, FALSE)] >>
    /\ UNCHANGED << hasModel, now, fnIn >>
    /\ UNCHANGED << sepVars, maVars >>

NextPalette ==
    \/ SetPaletteCall
    \/ AddColor
    \/ RemoveColor
    \/ ReplaceColor
    \/ Undo
    \/ Redo
    \/ ClearHistory

SpecPalette == InitPalette /\ [][NextPalette]_vars

----------------------------------------------------------------------------
(* Properties *)

IsPrefix(a, b) == Len(a) <= Len(b) /\ SubSeq(b, 1, Len(a)) = a

IsFailure(r) ==
    /\ r.returned
    /\ ~r.raised
    /\ ~r.success
    /\ StrNonEmpty(r.error_message)
    /\ r.channels = << >>

HybridRequest == method.isEnum /\ method.value = "hybrid_ai"

\* The order of the hybrid stages the design states.
HybridStages == << "Segment", "Advise", "RegionallySeparate", "Merge" >>

\* C1: whatever the requested method, an exception raised while the selected
\* engine (a direct engine, or any stage of the hybrid engine) runs never
\* leaves execute_separation: the call returns a result with success = false,
\* a non-empty error message and no channels.
C1_EngineExceptionBecomesFailure ==
    /\ ~result.raised
    /\ pc = "Completed" => result.returned
    /\ raisedIn \notin {"none", "Dispatch"} => pc = "Completed" /\ IsFailure(result)

\* An exception whose own text is empty, raised by the last hybrid stage.
C1_Witness ==
    /\ pc = "Completed"
    /\ raisedIn = "Merge"
    /\ result.error_message[2] = ""
    /\ result.returned

\* C2: a request whose method is not a key of the coordinator's engines fails
\* at once: no engine.separate is ever invoked, no hybrid stage starts, and
\* the result is a failure with zero channels.
C2_UnknownMethodDoesNoWork ==
    (method # NoRequest /\ method.value \notin EngineKeys) =>
        /\ pc = "Completed"
        /\ engineLog = << >>
        /\ stageLog = << >>
        /\ IsFailure(result)

C2_Witness ==
    /\ method.value = "halftone"
    /\ pc = "Completed"
    /\ ~result.success

\* C3: a hybrid run starts its stages in the order Segment, Advise,
\* RegionallySeparate, Merge, each on the output of the one before; when a
\* stage raises, no later stage starts and the coordinator returns a failure
\* with a message and zero channels; only a run whose four stages returned
\* succeeds, with the merger's channels.
C3_HybridStagesInOrder ==
    HybridRequest =>
        /\ IsPrefix(stageLog, HybridStages)
        /\ pc = "Segment" => stageLog = << >>
        /\ pc = "Advise" => stageLog = SubSeq(HybridStages, 1, 1)
        /\ pc \in {"AwaitService", "RegionallySeparate"} => stageLog = SubSeq(HybridStages, 1, 2)
        /\ pc = "Merge" => stageLog = SubSeq(HybridStages, 1, 3)
        /\ pc \in {"RegionallySeparate", "Merge"} =>
                regionAnalysis = BuildRegions(aiAnalysis, prelim)
        /\ pc = "Merge" =>
                [k \in 1..Len(regionalResults) |-> regionalResults[k].region] = regionAnalysis
        /\ engineLog # << >> => Len(stageLog) >= 3
        /\ raisedIn # "none" =>
                /\ pc = "Completed"
                /\ stageLog # << >>
                /\ stageLog[Len(stageLog)] = raisedIn
                /\ IsFailure(result)
        /\ (pc = "Completed" /\ raisedIn = "none") =>
                /\ stageLog = HybridStages
                /\ result.success
                /\ [i \in 1..Len(result.channels) |->
                        [name |-> result.channels[i].name, order |-> result.channels[i].order]]
                     = MergeRegionalChannels(regionalResults, palette)

\* The second stage raised (the build step of the advice), after an answer of
\* the advisory service.
C3_Witness ==
    /\ HybridRequest
    /\ pc = "Completed"
    /\ raisedIn = "Advise"
    /\ stageLog = << "Segment", "Advise" >>
    /\ aiAnalysis.source = "service"
    /\ IsFailure(result)

\* C4: separate_regions returns one result per region of the analysis, in
\* region order; a region whose engine raised is recorded with success =
\* false, its error and no channels, and the regions after it are separated
\* all the same (the engine is invoked for every region).
C4_OneResultPerRegion ==
    pc = "Merge" =>
        /\ Len(regionalResults) = Len(regionAnalysis)
        /\ Len(engineLog) = Len(regionAnalysis)
        /\ \A k \in 1..Len(regionalResults) :
            /\ regionalResults[k].region_id = regionAnalysis[k].id
            /\ engineLog[k].region = regionAnalysis[k].id
            /\ ~regionalResults[k].success =>
                    /\ regionalResults[k].channels = << >>
                    /\ Len(regionalResults[k].error) = 1
            /\ regionalResults[k].success =>
                    /\ regionalResults[k].error = << >>
                    /\ Len(regionalResults[k].channels) = Len(palette)

\* The first region fails and the second is separated.
C4_Witness ==
    /\ pc = "Merge"
    /\ Len(regionalResults) = 2
    /\ ~regionalResults[1].success
    /\ regionalResults[2].success
    /\ regionalResults[2].channels # << >>

\* C5: a hybrid run whose regional separation returned is reported as failed
\* (success = false, zero channels) when no region's separation succeeded, and
\* it is not failed because only some of the regions failed.  Stated for the
\* runs that have regions to separate and a palette to separate them into.
C5_HybridFailsOnlyWithoutSuccess ==
    (/\ HybridRequest /\ pc = "Completed" /\ Len(stageLog) = 4
     /\ regionalResults # << >> /\ palette # << >>) =>
        LET succeeded == {k \in 1..Len(regionalResults) : regionalResults[k].success}
        IN  /\ succeeded = {} => ~result.success /\ result.channels = << >>
            /\ (succeeded # {} /\ raisedIn = "none") => result.success

\* C6: when the advisory service is unavailable, raises, or answers with no
\* JSON, malformed JSON or a JSON object without 'recommended', the call
\* returns the rule-based recommendation as 'recommended', never None.
C6_FallbackIsRuleBased ==
    (/\ maPc \in {"returned", "raised"}
     /\ \/ maSvc.kind \in {"unavailable", "raises", "no_json", "bad_json"}
        \/ maSvc.kind = "json" /\ ~maSvc.data.hasRecommended) =>
        /\ maPc = "returned"
        /\ maOut.recommended =
            << CreateMethodRecommendation(RuleBasedRecommendations(maCtx).recommended, maCtx) >>

\* C7: analyze_and_recommend never raises, whatever the advisory service
\* does, a well-formed JSON answer with fields of the wrong type included.
C7_AdvisorNeverRaises == maPc # "raised"

\* C8: an advisor call that waits for the advisory service always eventually
\* stops waiting (a timeout cuts it off when the service never answers).
C8_AdvisorCallReturns == (pc = "AwaitService") ~> (pc # "AwaitService")

\* C9: an answer of the advisory service that lacks one of the six top-level
\* keys is never taken as the region analysis: the rule-based analysis is
\* used, and the hybrid run does not fail on it.
C9_MissingKeyFallsBack ==
    aiAnalysis.source = "service" =>
        /\ aiAnalysis.keys = TopLevelKeys
        /\ raisedIn = "Advise" =>
                \E k \in 1..Len(aiAnalysis.regions) :
                    aiAnalysis.regions[k].recommended_method \notin SeparationMethod

\* C10: the region analysis holds exactly one region per preliminary region,
\* and each of its regions has the id of the preliminary region whose mask it
\* has, on the advisory-service path as on the fallback path.
C10_RegionsMatchPreliminary ==
    pc \in {"RegionallySeparate", "Merge"} =>
        /\ Len(regionAnalysis) = Len(prelim)
        /\ \A k \in 1..Len(regionAnalysis) :
                \E j \in 1..Len(prelim) :
                    /\ prelim[j].region_id = regionAnalysis[k].id
                    /\ prelim[j].mask = regionAnalysis[k].mask
        /\ \A k, l \in 1..Len(regionAnalysis) :
                regionAnalysis[k].id = regionAnalysis[l].id => k = l

C12_FirstMatchingRuleDecides ==
    (maPc = "returned" /\ maSvc.kind \in {"unavailable", "raises"}) =>
        LET few   == maCtx.color_count <= 6 /\ maCtx.edge_type = "sharp" /\ ~maCtx.has_gradients
            photo == maCtx.texture_type = "photo" /\ maCtx.has_gradients
            mid   == maCtx.color_count >= 6 /\ maCtx.color_count <= 12
            is(m, sc) == /\ Len(maOut.recommended) = 1
                         /\ maOut.recommended[1].method = m
                         /\ maOut.recommended[1].score = sc
        IN  /\ few => is("spot_color", 90)
            /\ (~few /\ photo) => is("simulated_process", 85)
            /\ (~few /\ ~photo /\ mid) => is("index_color", 80)
            /\ (~few /\ ~photo /\ ~mid) => is("simulated_process", 75)
            /\ Len(maOut.alternatives) = 1
            /\ maOut.alternatives[1].method = "cmyk"
            /\ maOut.alternatives[1].score = 65

\* Six colours with sharp edges and no gradients: the first and the third
\* rule both match, and the first decides.
C12_Witness ==
    /\ maPc = "returned"
    /\ maSvc.kind = "unavailable"
    /\ maCtx.color_count = 6
    /\ maCtx.edge_type = "sharp"
    /\ ~maCtx.has_gradients
    /\ maOut.recommended[1].method = "spot_color"

\* C13: on the service path as on the fallback path, the returned methods are
\* ranked by score descending: no entry of 'all_methods' has a higher score
\* than an entry before it, 'recommended' is its first entry (of maximal
\* score) and 'alternatives' are the next two at most.
C13_RankedByScoreDescending ==
    maPc = "returned" =>
        LET all == maOut.all_methods
        IN  /\ \A i, j \in 1..Len(all) : i < j => ~ScoreLess(all[i], all[j])
            /\ all # << >> => maOut.recommended = << all[1] >>
            /\ Len(maOut.alternatives) = (IF Len(all) > 3 THEN 2 ELSE IF all = << >> THEN 0 ELSE Len(all) - 1)
            /\ \A i \in 1..Len(maOut.alternatives) : maOut.alternatives[i] = all[i + 1]

C15_SingleRegionMergeIsIdentity ==
    (/\ fnOut # << >>
     /\ Len(fnIn.results) = 1
     /\ fnIn.results[1].success
     /\ fnIn.results[1].mask = MergePixels) =>
        \A i \in 1..Len(fnIn.palette) :
            fnOut[1][i].data = fnIn.results[1].channels[i].data

\* C16: a successful result of a palette-driven method (SpotColor,
\* SimulatedProcess, IndexColor, HybridAI) has exactly one channel per palette
\* colour, in palette order, each named after its colour and with layer
\* order equal to its 1-based palette position, whatever regions exist or fail.
C16_OneChannelPerPaletteColor ==
    (/\ pc = "Completed"
     /\ result.success
     /\ method.value \in {"spot_color", "simulated_process", "index_color", "hybrid_ai"}) =>
        /\ Len(result.channels) = Len(palette)
        /\ \A i \in 1..Len(palette) :
                /\ result.channels[i].name = palette[i].name
                /\ result.channels[i].order = i

\* A hybrid run over two palette colours in which every region failed.
C16_Witness ==
    /\ pc = "Completed"
    /\ result.success
    /\ method.value = "hybrid_ai"
    /\ Len(palette) = 2
    /\ regionalResults # << >>
    /\ \A k \in 1..Len(regionalResults) : ~regionalResults[k].success
    /\ Len(result.channels) = 2

\* C17: every result has total_coverage at most 100: on success it is the sum
\* of the channels' coverage percentages capped at 100, whatever the method,
\* and on failure it is 0.
C17_TotalCoverageBounded ==
    /\ result.total_coverage <= 100
    /\ (pc = "Completed" /\ result.success) =>
            result.total_coverage =
                (IF SumCoverage(result.channels) > 100 THEN 100 ELSE SumCoverage(result.channels))
    /\ (pc = "Completed" /\ ~result.success) => result.total_coverage = 0

\* Channels that cover 120% together, reported as 100.
C17_Witness ==
    /\ pc = "Completed"
    /\ result.success
    /\ SumCoverage(result.channels) > 100
    /\ result.total_coverage = 100

\* C19: IndexColor gives every pixel to exactly one palette colour: at each
\* pixel one channel holds 255 and every other channel 0, with dithering on
\* or off; with dithering off the colour chosen is at minimal Lab distance
\* from the pixel.
C19_IndexColorIsOneHot ==
    (fnOut # << >> /\ ~fnOut[1].raised) =>
        LET chans == fnOut[1].channels
            pal   == fnIn.palette_lab
        IN  /\ Len(chans) = Len(pal)
            /\ \A pos \in Positions :
                    /\ Cardinality({i \in 1..Len(chans) : chans[i].data[pos] = 255}) = 1
                    /\ \A i \in 1..Len(chans) : chans[i].data[pos] \in {0, 255}
                    /\ fnIn.dither_method = "none" =>
                            \A i, j \in 1..Len(pal) :
                                chans[i].data[pos] = 255 =>
                                    LabDistance(pal[i], fnIn.image[pos])
                                        <= LabDistance(pal[j], fnIn.image[pos])

\* A dithered run over two colours in which the error handed on moves a pixel
\* to another colour than its nearest.
C19_Witness ==
    /\ fnOut # << >>
    /\ ~fnOut[1].raised
    /\ fnIn.dither_method = "floyd_steinberg"
    /\ Len(fnIn.palette_lab) = 2
    /\ \E pos \in Positions :
            fnOut[1].indices[pos] # ArgMin(fnIn.palette_lab, fnIn.image[pos])

\* C20: CMYK separation returns exactly four channels, Cyan, Magenta, Yellow,
\* Black in that order, with halftone angles 15, 75, 0 and 45, whatever the
\* palette; a pure red pixel gives C=0, M=255, Y=255, K=0 and a pure black
\* pixel gives C=M=Y=0, K=255.
C20_CmykFourFixedChannels ==
    fnOut # << >> =>
        LET chans == fnOut[1]
            inks(p) == [i \in 1..Len(chans) |-> chans[i].data[p]]
        IN  /\ [i \in 1..Len(chans) |-> chans[i].name]
                    = << "Cyan", "Magenta", "Yellow", "Black" >>
            /\ [i \in 1..Len(chans) |-> chans[i].halftone_angle] = << 15, 75, 0, 45 >>
            /\ [i \in 1..Len(chans) |-> chans[i].order] = << 1, 2, 3, 4 >>
            /\ \A p \in MergePixels :
                    /\ fnIn.image[p] = << 255, 0, 0 >> => inks(p) = << 0, 255, 255, 0 >>
                    /\ fnIn.image[p] = << 0, 0, 0 >>   => inks(p) = << 0, 0, 0, 255 >>

\* A separation of an image with a pure red and a pure black pixel, called
\* with a palette of two colours.
C20_Witness ==
    /\ fnOut # << >>
    /\ Len(fnIn.palette) = 2
    /\ \E p, q \in MergePixels :
            /\ fnIn.image[p] = << 255, 0, 0 >>
            /\ fnIn.image[q] = << 0, 0, 0 >>
            /\ fnOut[1][2].data[p] = 255
            /\ fnOut[1][4].data[q] = 255

\* C21: the halftone angle SpotColor gives the channel at 0-based palette
\* index i is 45 + 15 i degrees taken modulo 90, for every palette length.
C21_SpotAngleModulo90 ==
    fnOut # << >> =>
        \A i \in 1..Len(fnOut[1]) :
            fnOut[1][i].halftone_angle = (45 + 15 * (i - 1)) % 90

\* C22: RegionalSeparator separates each region with the engine of the
\* region's recommended method, and the method recorded in the region's result
\* is the method of the engine that ran, for every method a region can carry.
C22_RegionEngineMatchesMethod ==
    (regionalResults # << >> /\ Len(engineLog) >= Len(regionalResults)) =>
        \A k \in 1..Len(regionalResults) :
            LET call == engineLog[Len(engineLog) - Len(regionalResults) + k]
            IN  /\ call.region = regionalResults[k].region_id
                /\ call.engine = regionalResults[k].region.recommended_method
                /\ call.engine = regionalResults[k].method

\* C23: in a hybrid run dithering is enabled only when the region has
\* gradients: a region without gradients is separated with dithering off,
\* whatever its recommended method and whichever engine handles it.
C23_DitherOnlyWithGradients ==
    (regionalResults # << >> /\ Len(engineLog) >= Len(regionalResults)) =>
        \A k \in 1..Len(regionalResults) :
            LET call == engineLog[Len(engineLog) - Len(regionalResults) + k]
            IN  ~regionalResults[k].region.has_gradients =>
                    ~EngineDithers(call.engine, call.parameters)

\* C24: for a region recommended SimulatedProcess that has gradients, the
\* parameters RegionalSeparator builds make SimulatedProcessEngine apply
\* error diffusion to the region's channels.
C24_GradientRegionIsErrorDiffused ==
    (regionalResults # << >> /\ Len(engineLog) >= Len(regionalResults)) =>
        \A k \in 1..Len(regionalResults) :
            LET call == engineLog[Len(engineLog) - Len(regionalResults) + k]
                r    == regionalResults[k].region
            IN  (r.recommended_method = "simulated_process" /\ r.has_gradients) =>
                    /\ call.engine = "simulated_process"
                    /\ EngineDithers(call.engine, call.parameters)

\* C25: the combination step resolves overlaps first-writer-wins in the order
\* edge, colour, texture: no pixel of an earlier region is in a later one,
\* colour and texture regions hold only pixels unassigned when they were
\* added, texture regions are added only when fewer than two regions exist
\* after the edge and colour passes, and the masks are pairwise disjoint.
C25_FirstWriterWins ==
    fnOut # << >> =>
        LET combined == fnOut[1]
            n == Len(combined)
            rank(t) == CASE t = "edge" -> 1 [] t = "color" -> 2 [] t = "texture" -> 3
        IN  /\ \A i, j \in 1..n :
                    i < j => /\ combined[i].mask \cap combined[j].mask = {}
                             /\ rank(combined[i].technique) <= rank(combined[j].technique)
            /\ \A j \in 1..n :
                    /\ combined[j].assigned_before = UNION {combined[i].mask : i \in 1..(j - 1)}
                    /\ combined[j].technique \in {"color", "texture"} =>
                            combined[j].mask \cap combined[j].assigned_before = {}
            /\ (\E j \in 1..n : combined[j].technique = "texture") =>
                    Cardinality({i \in 1..n : combined[i].technique \in {"edge", "color"}}) < 2

\* A combination of an edge region and a texture region cut down to its
\* unassigned part, where a colour segment overlapping the edge region was
\* left out because too little of it was unassigned.
C25_Witness ==
    /\ fnOut # << >>
    /\ Len(fnOut[1]) = 2
    /\ fnOut[1][1].technique = "edge"
    /\ fnOut[1][2].technique = "texture"
    /\ \E k \in 1..Len(fnIn.color_regions) :
            /\ fnIn.color_regions[k] \cap fnOut[1][1].mask # {}
            /\ fnIn.color_regions[k] \ fnOut[1][1].mask # {}
    /\ \E k \in 1..Len(fnIn.texture_regions) :
            /\ fnIn.texture_regions[k] \cap fnOut[1][1].mask # {}
            /\ fnOut[1][2].mask = fnIn.texture_regions[k] \ fnOut[1][1].mask

C27_ImageUnchanged ==
    fnOut[1].returned => fnOut[1].heap[CallerImage] = fnIn.image

\* A hybrid run that white-filled a region's image around its mask and
\* dithered the region in a working array.
C27_Witness ==
    /\ fnOut[1].returned
    /\ fnOut[1].success
    /\ fnIn.method = "hybrid_ai"
    /\ \E k \in 1..Len(fnIn.regions) :
            /\ fnIn.regions[k].has_gradients
            /\ fnIn.regions[k].engine = "index_color"
            /\ \E p \in MergePixels \ fnIn.regions[k].mask : fnIn.image[p] # 255
    /\ \E id \in 1..Len(fnOut[1].heap) :
            \E p \in MergePixels : fnOut[1].heap[id][p] = 255 /\ fnIn.image[p] # 255

\* C28: when palette names are unique and a region's output holds one channel
\* per palette colour under that colour's name, the channel merged into the
\* accumulator of a colour is the channel of that name, also when two palette
\* colours have the same RGB: the merged value is the maximum over the
\* channels named after the colour.
C28_MergerMatchesByName ==
    fnOut # << >> =>
        LET res == fnIn.results
            pal == fnIn.palette
            named(r, c) == CHOOSE i \in 1..Len(r.channels) : r.channels[i].name = c.name
            given(c, q) ==
                { res[k].channels[named(res[k], c)].data[q] :
                    k \in { j \in 1..Len(res) : res[j].success /\ q \in res[j].mask } }
        IN  \A i \in 1..Len(pal), q \in MergePixels :
                /\ given(pal[i], q) = {} => fnOut[1][i].data[q] = 0
                /\ given(pal[i], q) # {} =>
                        /\ fnOut[1][i].data[q] \in given(pal[i], q)
                        /\ \A v \in given(pal[i], q) : v <= fnOut[1][i].data[q]

\* C29: after a palette change that takes effect through set_palette,
\* add_color, remove_color or replace_color, an undo that follows returns True
\* and restores the palette to what it was just before the change, whatever
\* came earlier, also when the palette was empty before the change.
C29_UndoRestoresPrevious ==
    (fnOut[1].last.op = "undo" /\ fnOut[1].last.after_change) =>
        /\ fnOut[1].last.returned
        /\ fnOut[1].palette = fnOut[1].last.before

\* C30: in every state reachable by set_palette, add_color, remove_color,
\* replace_color, undo, redo and clear_history, the undo stack holds at most
\* max_history entries, although redo pushes onto it without checking.
C30_UndoStackBounded ==
    Len(fnOut[1].undo_stack) <= MaxHistory

\* A redo that pushed onto the undo stack and left it full.
C30_Witness ==
    /\ fnOut[1].last.op = "redo"
    /\ fnOut[1].last.returned
    /\ Len(fnOut[1].undo_stack) = MaxHistory

====
